---- MODULE Spec2Model ----
(***************************************************************************)
(* kubemcp: an MCP server exposing two read-only Kubernetes pod queries    *)
(* (get_pod_details, get_pods_by_label) over SSE, with Prometheus metrics. *)
(*                                                                         *)
(* src/main.go holds two versions of the program:                          *)
(*   variant 1 = lines   1-195 (getByLabelHandler, in-cluster config only) *)
(*   variant 2 = lines 197-410 (getPodByLabelHandler, kubeconfig fallback, *)
(*               deleteUnnecessaryFieldsFromPodSpec)                       *)
(* Both are modelled; the variable `variant` says which one is running.    *)
(*                                                                         *)
(* Three specifications:                                                   *)
(*   SpecSanitize : deleteUnnecessaryFieldsFromPodSpec on arbitrary pods   *)
(*   SpecTools    : one tool invocation at a time through the handlers     *)
(*   SpecServer   : main() start-up followed by concurrent HTTP calls      *)
(*                  through the metric-tracking mux handlers               *)
(***************************************************************************)
EXTENDS Integers, Sequences, FiniteSets, TLC

----------------------------------------------------------------------------
(* Bounds of the model *)

\* longest managedFields list of a pod
MaxManaged == 2
\* number of distinct annotation values
NumAnnVals == 2
\* longest pod list the cluster returns
MaxPods == 3
\* number of HTTP calls the server receives
NumCalls == 3

----------------------------------------------------------------------------
(* Pod records *)

LastApplied == "kubectl.kubernetes.io/last-applied-configuration"

Psp == "kubernetes.io/psp"

\* the two redacted keys and one annotation that must survive
AnnKeys == {LastApplied, Psp, "app"}

AnnVals == 1..NumAnnVals

\* a Go map[string]string: nil, or a finite map (possibly empty)
EmptyKV == [k \in {} |-> 0]

NilMap == [nil |-> TRUE, kv |-> EmptyKV]

Annotations ==
    {NilMap} \cup
    {[nil |-> FALSE, kv |-> f] : f \in UNION {[S -> AnnVals] : S \in SUBSET AnnKeys}}

\* managedFields: a list of entries, each by the same manager
ManagedLists == UNION {[1..n -> {"kubectl"}] : n \in 0..MaxManaged}

\* v1.Pod reduced to the fields the program touches plus one it must not
Pods ==
    [name : {"web-0"}, managedFields : ManagedLists,
     annotations : Annotations, phase : {"Running", "Pending"}]

\* Go's builtin delete(m, k): a no-op on a nil map and on a missing key
delete(m, k) ==
    IF m.nil THEN m
    ELSE [nil |-> FALSE, kv |-> [x \in (DOMAIN m.kv) \ {k} |-> m.kv[x]]]

\* a sanitizer that forgets the second delete
deleteUnnecessaryFieldsFromPodSpec_keepsPsp(p) ==
    [p EXCEPT !.managedFields = <<>>,
              !.annotations = delete(p.annotations, LastApplied)]

\* a sanitizer that deletes the second key only when the first is absent
deleteUnnecessaryFieldsFromPodSpec_elseIf(p) ==
    [p EXCEPT !.managedFields = <<>>,
              !.annotations =
                  IF LastApplied \in DOMAIN p.annotations.kv
                  THEN delete(p.annotations, LastApplied)
                  ELSE delete(p.annotations, Psp)]

\* main.go:351-357, the value *pod holds when the function returns
deleteUnnecessaryFieldsFromPodSpec(p) ==
    [p EXCEPT !.managedFields = <<>>,
              !.annotations = delete(delete(p.annotations, LastApplied), Psp)]

----------------------------------------------------------------------------
(* Tool invocations: requests, cluster responses, tool results *)

\* a value of the untyped argument map: absent, of a non-string type, or a string
Missing == [kind |-> "missing", s |-> ""]

NotString == [kind |-> "number", s |-> ""]

Str(x) == [kind |-> "string", s |-> x]

\* `v, _ := args[key].(string)`: the zero value "" unless the entry is a string
asString(v) == IF v.kind = "string" THEN v.s ELSE ""

ArgVals(x) == {Missing, NotString, Str(""), Str(x)}

\* request.Params.Arguments: isMap says whether it is a map[string]interface{}
Requests ==
    [tool : {"get_pod_details"}, isMap : {TRUE}, podName : ArgVals("web-0"),
     namespace : ArgVals("kube-system"), labelSelector : {Missing}]
    \cup
    [tool : {"get_pods_by_label"}, isMap : {TRUE}, podName : {Missing},
     namespace : {Missing}, labelSelector : ArgVals("app=nginx")]
    \cup
    [tool : {"get_pod_details", "get_pods_by_label"}, isMap : {FALSE},
     podName : {Missing}, namespace : {Missing}, labelSelector : {Missing}]

NoRequest ==
    [tool |-> "none", isMap |-> FALSE, podName |-> Missing,
     namespace |-> Missing, labelSelector |-> Missing]

Ann(f) == [nil |-> FALSE, kv |-> f]

\* the pods of the modelled cluster
ClusterPods ==
    { [name |-> "web-0", managedFields |-> <<"kubectl">>, phase |-> "Running",
       annotations |-> Ann([k \in AnnKeys |-> 1])],
      [name |-> "web-1", managedFields |-> <<>>, phase |-> "Pending",
       annotations |-> NilMap],
      [name |-> "db-0", managedFields |-> [i \in 1..MaxManaged |-> "kubectl"],
       phase |-> "Running", annotations |-> Ann([k \in {"app", Psp} |-> NumAnnVals])] }

PodLists == UNION {[1..n -> ClusterPods] : n \in 0..MaxPods}

\* errors of the Kubernetes API: not-found, authorization, network
ApiErrors == {"pods not found", "pods is forbidden", "connection refused"}

NoErr == ""

Failure(e) == [ok |-> FALSE, err |-> e, items |-> <<>>]

Success(items) == [ok |-> TRUE, err |-> NoErr, items |-> items]

NoResponse == Failure(NoErr)

\* clientset.CoreV1().Pods(namespace).Get(ctx, name, ...): what it can return.
\* client-go rejects an empty resource name before any request is sent.
Get(namespace, name) ==
    IF name = "" THEN {Failure("resource name may not be empty")}
    ELSE {Failure(e) : e \in ApiErrors} \cup {Success(<<p>>) : p \in ClusterPods}

\* clientset.CoreV1().Pods("").List(ctx, listOptions): what it can return
List(labelSelector) ==
    {Failure(e) : e \in ApiErrors} \cup {Success(l) : l \in PodLists}

\* encoding/json of a pod: managedFields and annotations are `omitempty`,
\* so a nil and an empty map give the same document
ToJSON(p) ==
    [name |-> p.name, phase |-> p.phase, managedFields |-> p.managedFields,
     annotations |-> p.annotations.kv]

ToJSONList(items) == [i \in 1..Len(items) |-> ToJSON(items[i])]

\* *mcp.CallToolResult; nil is the nil pointer
NilResult ==
    [nil |-> TRUE, isError |-> FALSE, text |-> <<>>, shape |-> "none",
     encoding |-> "none", doc |-> <<>>]

\* mcp.NewToolResultError(text): text is the list of the message's parts
NewToolResultError(text) ==
    [nil |-> FALSE, isError |-> TRUE, text |-> text, shape |-> "none",
     encoding |-> "none", doc |-> <<>>]

\* mcp.NewToolResultJSON(data): <<result, err>>; marshals data itself and
\* returns (nil, err) when that fails
NewToolResultJSON(shape, encoding, doc, marshals) ==
    IF marshals
    THEN <<[nil |-> FALSE, isError |-> FALSE, text |-> <<>>, shape |-> shape,
            encoding |-> encoding, doc |-> doc], NoErr>>
    ELSE <<NilResult, "unable to marshal JSON">>

----------------------------------------------------------------------------
(* The tool handlers.  Each takes the request, the answer the cluster client *)
(* gives if it is asked, and whether encoding/json can marshal the data, and *)
(* yields the handler's return values and the cluster calls it made.         *)

Outcome(result, err, calls) == [result |-> result, err |-> err, calls |-> calls]

ListCall(labelSelector) == [op |-> "List", namespace |-> "", arg |-> labelSelector]

GetCall(namespace, podName) == [op |-> "Get", namespace |-> namespace, arg |-> podName]

\* main.go:146-148: `for _, pod := range pods.Items { pod.ManagedFields = nil }`
\* assigns to the loop variable, a copy of the element; pods.Items is unchanged
clearManagedFieldsOfCopies(items) == items

\* variant 1, main.go:129-160
getByLabelHandler(req, resp, marshals) ==
    IF ~req.isMap
    THEN Outcome(NewToolResultError(<<"Invalid arguments format">>), NoErr, <<>>)
    ELSE LET labelSelector == asString(req.labelSelector)
             calls == <<ListCall(labelSelector)>>
         IN  IF ~resp.ok
             THEN Outcome(NewToolResultError(<<"Error getting pods list">>), NoErr, calls)
             ELSE LET items == clearManagedFieldsOfCopies(resp.items)
                  IN  IF ~marshals
                      THEN Outcome(NewToolResultError(<<"Unmarshall Error">>), NoErr, calls)
                      ELSE \* jsonData is a []byte, which always marshals (as base64)
                           LET r == NewToolResultJSON("array", "base64", ToJSONList(items), TRUE)
                           IN  IF r[2] # NoErr
                               THEN Outcome(NilResult, r[2], calls)
                               ELSE Outcome(r[1], NoErr, calls)

\* variant 1, main.go:162-195
getPodDatailsHandler_v1(req, resp, marshals) ==
    IF ~req.isMap
    THEN Outcome(NewToolResultError(<<"Invalid arguments format">>), NoErr, <<>>)
    ELSE LET podName == asString(req.podName)
             ns == asString(req.namespace)
             namespace == IF ns = "" THEN "default" ELSE ns
             calls == <<GetCall(namespace, podName)>>
         IN  IF ~resp.ok
             THEN Outcome(NewToolResultError(<<"Pod not found: ", resp.err>>), NoErr, calls)
             ELSE LET p == [resp.items[1] EXCEPT !.managedFields = <<>>]
                  IN  IF ~marshals
                      THEN Outcome(NewToolResultError(<<"Unmarshall Error">>), NoErr, calls)
                      ELSE LET r == NewToolResultJSON("object", "base64", <<ToJSON(p)>>, TRUE)
                           IN  IF r[2] # NoErr
                               THEN Outcome(NilResult, r[2], calls)
                               ELSE Outcome(r[1], NoErr, calls)

\* main.go:382-384: sanitize every element of pods.Items through its address
sanitizeItems(items) ==
    [i \in 1..Len(items) |-> deleteUnnecessaryFieldsFromPodSpec(items[i])]

\* variant 2, main.go:359-387
getPodByLabelHandler(req, resp, marshals) ==
    IF ~req.isMap
    THEN Outcome(NewToolResultError(<<"Invalid arguments format">>), NoErr, <<>>)
    ELSE LET labelSelector == asString(req.labelSelector)
             calls == <<ListCall(labelSelector)>>
         IN  IF labelSelector = ""
             THEN Outcome(NewToolResultError(<<"labelSelector is required">>), NoErr, <<>>)
             ELSE IF ~resp.ok
             THEN Outcome(NewToolResultError(<<"Error getting pods list: ", resp.err>>),
                          NoErr, calls)
             ELSE LET items == sanitizeItems(resp.items)
                      r == NewToolResultJSON("array", "json", ToJSONList(items), marshals)
                  IN  Outcome(r[1], r[2], calls)

\* variant 2, main.go:389-410
getPodDatailsHandler(req, resp, marshals) ==
    IF ~req.isMap
    THEN Outcome(NewToolResultError(<<"Invalid arguments format">>), NoErr, <<>>)
    ELSE LET podName == asString(req.podName)
             ns == asString(req.namespace)
             namespace == IF ns = "" THEN "default" ELSE ns
             calls == <<GetCall(namespace, podName)>>
         IN  IF ~resp.ok
             THEN Outcome(NewToolResultError(<<"Pod not found: ", resp.err>>), NoErr, calls)
             ELSE LET p == deleteUnnecessaryFieldsFromPodSpec(resp.items[1])
                      r == NewToolResultJSON("object", "json", <<ToJSON(p)>>, marshals)
                  IN  Outcome(r[1], r[2], calls)

\* the namespace the pod-details handlers pass to the cluster client
namespaceOf(req) ==
    IF asString(req.namespace) = "" THEN "default" ELSE asString(req.namespace)

----------------------------------------------------------------------------
VARIABLES
    \* SpecSanitize
    pod,        \* the record behind the *v1.Pod pointer
    input,      \* the record as it was before the first call
    once,       \* the record after the first call
    applied,    \* number of calls of deleteUnnecessaryFieldsFromPodSpec so far
    \* which version of main.go runs
    variant,
    \* SpecTools
    tpc,        \* "idle", "called" (a tool call was dispatched), "returned"
    request,    \* the mcp.CallToolRequest of the current invocation
    calls,      \* cluster-client operations called during the current invocation
    returned,   \* what the cluster client answered, NoResponse if not asked
    result,     \* the handler's *mcp.CallToolResult
    handlerErr, \* the handler's error return, NoErr for nil
    \* SpecServer
    env,        \* the KUBECONFIG environment variable, "" when unset
    mainPc,     \* where main() is
    startupLog, \* the configuration loaders main() has called, in order
    config,     \* the *rest.Config in use: "none", "in-cluster" or "kubeconfig"
    activeConnections,  \* the gauge mcp_active_connections
    requestsTotal,      \* the counter vector mcp_requests_total{endpoint}
    conns,      \* the HTTP calls: path and position in the mux handler
    peak        \* the largest number of calls that were inside a handler at once

sanVars == <<pod, input, once, applied>>

toolVars == <<tpc, request, calls, returned, result, handlerErr>>

srvVars ==
    <<env, mainPc, startupLog, config, activeConnections, requestsTotal, conns, peak>>

vars == <<sanVars, variant, toolVars, srvVars>>

SanIdle ==
    /\ pod = CHOOSE p \in Pods : TRUE
    /\ input = pod
    /\ once = pod
    /\ applied = 0

ToolsIdle ==
    /\ tpc = "idle"
    /\ request = NoRequest
    /\ calls = <<>>
    /\ returned = NoResponse
    /\ result = NilResult
    /\ handlerErr = NoErr

Endpoints == {"sse", "message", "root"}

Calls == 1..NumCalls

NoConn == [path |-> "", pc |-> "none", outcome |-> "none"]

\* the state of the process before main() runs
ServerIdle ==
    /\ mainPc = "start"
    /\ startupLog = <<>>
    /\ config = "none"
    /\ activeConnections = 0
    /\ requestsTotal = [e \in Endpoints |-> 0]
    /\ conns = [c \in Calls |-> NoConn]
    /\ peak = 0

----------------------------------------------------------------------------
(* SpecSanitize *)

InitSanitize ==
    /\ pod \in Pods
    /\ input = pod
    /\ once = pod
    /\ applied = 0
    /\ variant = 2
    /\ ToolsIdle
    /\ env = ""
    /\ ServerIdle

\* one call of deleteUnnecessaryFieldsFromPodSpec(&pod)
Sanitize ==
    /\ applied < 2
    /\ pod' = deleteUnnecessaryFieldsFromPodSpec(pod)
    /\ once' = IF applied = 0 THEN pod' ELSE once
    /\ applied' = applied + 1
    /\ UNCHANGED <<input, variant, toolVars, srvVars>>

NextSanitize == Sanitize

SpecSanitize == InitSanitize /\ [][NextSanitize]_vars

----------------------------------------------------------------------------
(* SpecTools *)

InitTools ==
    /\ SanIdle
    /\ variant \in {1, 2}
    /\ ToolsIdle
    /\ env = ""
    /\ ServerIdle

\* the transport adapter dispatches a tool call
CallTool ==
    /\ tpc = "idle"
    /\ request' \in Requests
    /\ tpc' = "called"
    /\ UNCHANGED <<sanVars, variant, calls, returned, result, handlerErr, srvVars>>

Finish(out, resp) ==
    /\ tpc' = "returned"
    /\ calls' = out.calls
    /\ returned' = IF out.calls = <<>> THEN NoResponse ELSE resp
    /\ result' = out.result
    /\ handlerErr' = out.err
    /\ UNCHANGED <<sanVars, variant, request, srvVars>>

RunGetByLabelHandler ==
    /\ tpc = "called" /\ variant = 1 /\ request.tool = "get_pods_by_label"
    /\ \E resp \in List(asString(request.labelSelector)), marshals \in BOOLEAN :
          Finish(getByLabelHandler(request, resp, marshals), resp)

RunGetPodDatailsHandler_v1 ==
    /\ tpc = "called" /\ variant = 1 /\ request.tool = "get_pod_details"
    /\ \E resp \in Get(namespaceOf(request), asString(request.podName)),
          marshals \in BOOLEAN :
          Finish(getPodDatailsHandler_v1(request, resp, marshals), resp)

RunGetPodByLabelHandler ==
    /\ tpc = "called" /\ variant = 2 /\ request.tool = "get_pods_by_label"
    /\ \E resp \in List(asString(request.labelSelector)), marshals \in BOOLEAN :
          Finish(getPodByLabelHandler(request, resp, marshals), resp)

RunGetPodDatailsHandler ==
    /\ tpc = "called" /\ variant = 2 /\ request.tool = "get_pod_details"
    /\ \E resp \in Get(namespaceOf(request), asString(request.podName)),
          marshals \in BOOLEAN :
          Finish(getPodDatailsHandler(request, resp, marshals), resp)

\* the result has been sent; nothing of the invocation is kept
Respond ==
    /\ tpc = "returned"
    /\ tpc' = "idle"
    /\ request' = NoRequest
    /\ calls' = <<>>
    /\ returned' = NoResponse
    /\ result' = NilResult
    /\ handlerErr' = NoErr
    /\ UNCHANGED <<sanVars, variant, srvVars>>

NextTools ==
    \/ CallTool
    \/ RunGetByLabelHandler
    \/ RunGetPodDatailsHandler_v1
    \/ RunGetPodByLabelHandler
    \/ RunGetPodDatailsHandler
    \/ Respond

SpecTools == InitTools /\ [][NextTools]_vars

----------------------------------------------------------------------------
(* SpecServer: main() and the mux handlers *)

HomeDir == "/root"

\* filepath.Join: the path as the list of its elements
Join(a, b, c) == <<a, b, c>>

\* main.go:248-256: the kubeconfig path main() loads
kubeconfigPath(kubeconfigEnv, homeDir) ==
    IF kubeconfigEnv = "" THEN Join(homeDir, ".kube", "config") ELSE <<kubeconfigEnv>>

Attempt(op, path, ok) == [op |-> op, path |-> path, ok |-> ok]

InitServer ==
    /\ SanIdle
    /\ variant \in {1, 2}
    /\ ToolsIdle
    /\ env \in {"", "/etc/kubeconfig"}
    /\ ServerIdle

shimVars == <<activeConnections, requestsTotal, conns, peak>>

\* a main() that goes on with the in-cluster configuration although it failed
InClusterConfig_ignoresError ==
    /\ mainPc = "start"
    /\ \E ok \in BOOLEAN :
         /\ startupLog' = Append(startupLog, Attempt("InClusterConfig", <<>>, ok))
         /\ config' = IF ok THEN "in-cluster" ELSE config
         /\ mainPc' = "haveConfig"
    /\ UNCHANGED <<sanVars, variant, toolVars, env, shimVars>>

\* main.go:40-43 and 243-266: rest.InClusterConfig() succeeds or fails
InClusterConfig ==
    /\ mainPc = "start"
    /\ \E ok \in BOOLEAN :
         /\ startupLog' = Append(startupLog, Attempt("InClusterConfig", <<>>, ok))
         /\ config' = IF ok THEN "in-cluster" ELSE config
         /\ mainPc' = IF ok THEN "haveConfig"
                      ELSE IF variant = 1 THEN "panicked" ELSE "fallback"
    /\ UNCHANGED <<sanVars, variant, toolVars, env, shimVars>>

\* main.go:245-263: the kubeconfig file named by KUBECONFIG, or the one in the
\* home directory; os.UserHomeDir and clientcmd.BuildConfigFromFlags may fail
KubeconfigFallback ==
    /\ mainPc = "fallback"
    /\ \E homeOk \in BOOLEAN, ok \in BOOLEAN :
         IF env = "" /\ ~homeOk
         THEN /\ mainPc' = "panicked"
              /\ UNCHANGED <<startupLog, config>>
         ELSE /\ startupLog' = Append(startupLog,
                    Attempt("BuildConfigFromFlags", kubeconfigPath(env, HomeDir), ok))
              /\ config' = IF ok THEN "kubeconfig" ELSE config
              /\ mainPc' = IF ok THEN "haveConfig" ELSE "panicked"
    /\ UNCHANGED <<sanVars, variant, toolVars, env, shimVars>>

\* main.go:45-48 and 267-270: kubernetes.NewForConfig(config)
NewForConfig ==
    /\ mainPc = "haveConfig"
    /\ \E ok \in BOOLEAN : mainPc' = IF ok THEN "haveClient" ELSE "panicked"
    /\ UNCHANGED <<sanVars, variant, toolVars, env, startupLog, config, shimVars>>

\* main.go:124-126 and 346-348: http.ListenAndServe binds and serves, or the
\* process exits through log.Fatalf
ListenAndServe ==
    /\ mainPc = "haveClient"
    /\ \E ok \in BOOLEAN : mainPc' = IF ok THEN "serving" ELSE "exited"
    /\ UNCHANGED <<sanVars, variant, toolVars, env, startupLog, config, shimVars>>

Paths == {"/sse", "/message", "/", "/healthz"}

\* the patterns registered on the ServeMux: "/" takes every other path
Route(path) ==
    IF path = "/metrics" THEN "metrics"
    ELSE IF path = "/sse" THEN "sse"
    ELSE IF path = "/message" THEN "message"
    ELSE "root"

\* the label under which a call is counted, "none" for a path the root
\* handler answers with 404
EndpointOf(path) ==
    IF Route(path) = "root" /\ path # "/" THEN "none" ELSE Route(path)

\* the handlers that track the connection: /sse and / (path exactly "/")
Tracked(path) == EndpointOf(path) \in {"sse", "root"}

InHandler(c) == conns[c].pc \in {"entered", "counted", "exiting"}

NumInHandler(cs) == Cardinality({c \in Calls : cs[c].pc \in {"entered", "counted", "exiting"}})

SrvUnchanged == UNCHANGED <<sanVars, variant, toolVars, env, mainPc, startupLog, config>>

\* net/http accepts a request and routes it; calls are numbered in arrival order
Accept(c, path) ==
    /\ mainPc = "serving"
    /\ conns[c].pc = "none"
    /\ \A d \in Calls : d < c => conns[d].pc # "none"
    /\ conns' = [conns EXCEPT ![c] = [path |-> path, pc |-> "accepted", outcome |-> "none"]]
    /\ UNCHANGED <<activeConnections, requestsTotal, peak>>
    /\ SrvUnchanged

\* a root handler that defers Dec() without calling Inc()
GaugeInc_sseOnly(c) ==
    /\ conns[c].pc = "accepted"
    /\ Tracked(conns[c].path)
    /\ activeConnections' =
          IF conns[c].path = "/sse" THEN activeConnections + 1 ELSE activeConnections
    /\ conns' = [conns EXCEPT ![c].pc = "entered"]
    /\ peak' = IF NumInHandler(conns') > peak THEN NumInHandler(conns') ELSE peak
    /\ UNCHANGED requestsTotal
    /\ SrvUnchanged

\* main.go:315-316 and 329-330: activeConnections.Inc(), with Dec() deferred
GaugeInc(c) ==
    /\ conns[c].pc = "accepted"
    /\ Tracked(conns[c].path)
    /\ activeConnections' = activeConnections + 1
    /\ conns' = [conns EXCEPT ![c].pc = "entered"]
    /\ peak' = IF NumInHandler(conns') > peak THEN NumInHandler(conns') ELSE peak
    /\ UNCHANGED requestsTotal
    /\ SrvUnchanged

\* main.go:317, 322 and 331: requestsTotal.WithLabelValues(endpoint).Inc()
CountRequest(c) ==
    /\ \/ conns[c].pc = "entered"
       \/ conns[c].pc = "accepted" /\ EndpointOf(conns[c].path) = "message"
    /\ requestsTotal' =
          [requestsTotal EXCEPT ![EndpointOf(conns[c].path)] = @ + 1]
    /\ conns' = [conns EXCEPT ![c].pc = "counted"]
    /\ peak' = IF NumInHandler(conns') > peak THEN NumInHandler(conns') ELSE peak
    /\ UNCHANGED activeConnections
    /\ SrvUnchanged

\* main.go:318, 323 and 332: ServeHTTP of the SSE server returns or panics.
\* The message handler has nothing deferred and is left at once.
Serve(c) ==
    /\ conns[c].pc = "counted"
    /\ \E outcome \in {"returned", "panic"} :
         conns' = [conns EXCEPT
                     ![c].pc = IF Tracked(conns[c].path) THEN "exiting" ELSE "done",
                     ![c].outcome = outcome]
    /\ UNCHANGED <<activeConnections, requestsTotal, peak>>
    /\ SrvUnchanged

\* a Dec() that is called after ServeHTTP instead of deferred: a panic skips it
GaugeDec_notDeferred(c) ==
    /\ conns[c].pc = "exiting"
    /\ activeConnections' =
          IF conns[c].outcome = "panic" THEN activeConnections ELSE activeConnections - 1
    /\ conns' = [conns EXCEPT ![c].pc = "done"]
    /\ UNCHANGED <<requestsTotal, peak>>
    /\ SrvUnchanged

\* main.go:316 and 330: the deferred activeConnections.Dec() runs on return
\* and on panic alike
GaugeDec(c) ==
    /\ conns[c].pc = "exiting"
    /\ activeConnections' = activeConnections - 1
    /\ conns' = [conns EXCEPT ![c].pc = "done"]
    /\ UNCHANGED <<requestsTotal, peak>>
    /\ SrvUnchanged

\* main.go:333-335: the root handler answers any other path with 404
NotFound(c) ==
    /\ conns[c].pc = "accepted"
    /\ EndpointOf(conns[c].path) = "none"
    /\ conns' = [conns EXCEPT ![c].pc = "done"]
    /\ UNCHANGED <<activeConnections, requestsTotal, peak>>
    /\ SrvUnchanged

NextServer ==
    \/ InClusterConfig
    \/ KubeconfigFallback
    \/ NewForConfig
    \/ ListenAndServe
    \/ \E c \in Calls, path \in Paths : Accept(c, path)
    \/ \E c \in Calls : GaugeInc(c)
    \/ \E c \in Calls : CountRequest(c)
    \/ \E c \in Calls : Serve(c)
    \/ \E c \in Calls : GaugeDec(c)
    \/ \E c \in Calls : NotFound(c)

SpecServer == InitServer /\ [][NextServer]_vars

----------------------------------------------------------------------------
(* Properties *)

Range(seq) == {seq[i] : i \in DOMAIN seq}

IsErrorResult == ~result.nil /\ result.isError

IsSuccessResult == ~result.nil /\ ~result.isError

Redacted == {LastApplied, Psp}

\* C1: a get_pod_details invocation whose podName is missing, not a string or
\* empty returns an error result, and the cluster client's Get is not called.
C1_EmptyPodNameNoGet ==
    (tpc = "returned" /\ request.tool = "get_pod_details"
        /\ asString(request.podName) = "")
    => /\ IsErrorResult
       /\ \A i \in DOMAIN calls : calls[i].op # "Get"

\* C2: a get_pods_by_label invocation whose labelSelector is missing, not a
\* string or empty returns an error result, and List is not called.
C2_EmptySelectorNoList ==
    (tpc = "returned" /\ request.tool = "get_pods_by_label"
        /\ asString(request.labelSelector) = "")
    => /\ IsErrorResult
       /\ \A i \in DOMAIN calls : calls[i].op # "List"

\* what C2 asks, of variant 2 alone
C2_Variant2 == variant = 2 => C2_EmptySelectorNoList

\* C3: a successful get_pods_by_label returns as many entries as the cluster
\* client returned pods, in the same order, each without managedFields and
\* without the two redacted annotations.
C3_ListSanitizedInOrder ==
    (tpc = "returned" /\ request.tool = "get_pods_by_label" /\ IsSuccessResult)
    => /\ Len(result.doc) = Len(returned.items)
       /\ \A i \in DOMAIN result.doc :
            /\ result.doc[i].name = returned.items[i].name
            /\ result.doc[i].phase = returned.items[i].phase
            /\ result.doc[i].managedFields = <<>>
            /\ (DOMAIN result.doc[i].annotations) \cap Redacted = {}

\* what C3 asks, of variant 2 alone
C3_Variant2 == variant = 2 => C3_ListSanitizedInOrder

\* C4: after one call of the sanitizer on any pod, managedFields is empty, the
\* annotations are the input's without exactly the two redacted keys (a nil
\* map stays nil), and name and phase are untouched.
C4_SanitizeRemovesExactly ==
    applied = 1 =>
      /\ pod.managedFields = <<>>
      /\ pod.annotations.nil = input.annotations.nil
      /\ DOMAIN pod.annotations.kv = (DOMAIN input.annotations.kv) \ Redacted
      /\ \A k \in DOMAIN pod.annotations.kv :
            pod.annotations.kv[k] = input.annotations.kv[k]
      /\ pod.name = input.name
      /\ pod.phase = input.phase

C4_Witness ==
    /\ applied = 1
    /\ input.managedFields # <<>>
    /\ DOMAIN input.annotations.kv = AnnKeys
    /\ DOMAIN pod.annotations.kv = {"app"}

\* C5: a second call of the sanitizer leaves the record as the first call
\* left it.
C5_SanitizeIdempotent == applied = 2 => pod = once

C5_Witness ==
    /\ applied = 2
    /\ pod # input
    /\ Len(input.managedFields) = MaxManaged
    /\ Psp \in DOMAIN input.annotations.kv

\* C6: when the cluster client's call fails, the handler returns an error
\* result whose message contains the client's error, and a nil error.
C6_ClusterErrorCarried ==
    (tpc = "returned" /\ calls # <<>> /\ ~returned.ok)
    => /\ IsErrorResult
       /\ returned.err \in Range(result.text)
       /\ handlerErr = NoErr

\* what C6 asks, of variant 2 alone
C6_Variant2 == variant = 2 => C6_ClusterErrorCarried

AllDone == mainPc = "serving" /\ \A c \in Calls : conns[c].pc = "done"

CallsTo(e) == {c \in Calls : conns[c].pc # "none" /\ EndpointOf(conns[c].path) = e}

\* C7: once all the calls have completed, whatever their interleaving, the
\* gauge is 0 and every endpoint's counter is the number of calls made to it.
C7_CountersAfterAllCalls ==
    AllDone =>
      /\ activeConnections = 0
      /\ \A e \in Endpoints : requestsTotal[e] = Cardinality(CallsTo(e))

C7_Witness ==
    /\ AllDone
    /\ \A c \in Calls : conns[c].path = "/sse"
    /\ peak = NumCalls
    /\ \E c \in Calls : conns[c].outcome = "panic"
    /\ requestsTotal["sse"] = NumCalls

BuildAttempts == {i \in DOMAIN startupLog : startupLog[i].op = "BuildConfigFromFlags"}

\* C8: the in-cluster configuration is tried first; a kubeconfig is loaded
\* only after that failed, from $KUBECONFIG or else ~/.kube/config; the server
\* serves only after one of the two succeeded, and when both fail the process
\* has ended without serving.
C8_StartupOrder ==
    /\ startupLog # <<>> => startupLog[1].op = "InClusterConfig"
    /\ \A i \in BuildAttempts :
          /\ i = 2
          /\ ~startupLog[1].ok
          /\ startupLog[i].path =
                IF env = "" THEN <<HomeDir, ".kube", "config">> ELSE <<env>>
    /\ (mainPc = "serving" \/ \E c \in Calls : conns[c].pc # "none")
          => /\ \E i \in DOMAIN startupLog : startupLog[i].ok
             /\ config # "none"
    /\ (Len(startupLog) = 2 /\ \A i \in DOMAIN startupLog : ~startupLog[i].ok)
          => /\ mainPc = "panicked"
             /\ \A c \in Calls : conns[c].pc = "none"

C8_Witness ==
    /\ variant = 2
    /\ env = ""
    /\ startupLog = <<Attempt("InClusterConfig", <<>>, FALSE),
                      Attempt("BuildConfigFromFlags", <<"/root", ".kube", "config">>, TRUE)>>
    /\ mainPc = "serving"
    /\ \E c \in Calls : conns[c].pc = "done"

InFlight(es) ==
    {c \in Calls : EndpointOf(conns[c].path) \in es /\ InHandler(c)}

C10_NoFaultNoNilResult ==
    tpc = "returned" => ~result.nil /\ handlerErr = NoErr

====
